---- MODULE Spec2Model ----
(***************************************************************************)
(* Verification model of the campaign console: the local health-score      *)
(* rubric, the whisper generator over the IndexedDB stores, the publishing *)
(* stubs, the trending-topics cache and the speech narration service.      *)
(*                                                                         *)
(* Time is counted in hours since an arbitrary epoch (the code counts      *)
(* milliseconds; every duration the code uses is a whole number of hours). *)
(* JavaScript numbers are IEEE-754 doubles: the arithmetic the rubric does *)
(* on them is modelled bit-exactly by the D* operators below, on           *)
(* fixed-point numbers with 64 fractional bits held in three limbs.        *)
(***************************************************************************)
EXTENDS Integers, Sequences, FiniteSets, TLC

\* the absent value of a slot that holds a record
NoRecord == [none |-> TRUE]

(***************************************************************************)
(* Bounds                                                                  *)
(***************************************************************************)
MaxItems    == 5    \* pain points, transformations, taglines per blueprint
MaxHooks    == 6    \* hooks per blueprint
MaxEmotions == 6    \* primary emotions per blueprint
MaxCtas     == 4    \* call-to-action variants per blueprint
MaxPillars  == 3    \* pillars requested by a brief
MaxQty      == 5    \* requested or generated assets of one format
MaxNow      == 384  \* the clock stops after 16 days

DAY == 24           \* hours; 1000 * 60 * 60 * 24 ms in the code

VARIABLES
    now,            \* Date.now(), in hours since the epoch
    hsBrief,        \* the brief handed to analyzeHealthScore
    hsBlueprint,    \* the blueprint handed to analyzeHealthScore
    hsResult,       \* what the latest analyzeHealthScore call returned
    hsFirst,        \* the first call: its inputs, its result and its time
    hsScoredAt,     \* the time of the latest call
    hsBetween,      \* other inputs were scored since the first call
    campaigns,      \* object store 'campaigns': a set of records
    assets,         \* object store 'assets'
    templates,      \* object store 'templates'
    brandVoices,    \* object store 'brandVoices'
    incPending,     \* incrementTemplateUsage calls between their read and their write
    lastSaved,      \* per store and id, the record of the last completed save
    whispers,       \* what the latest generateWhispers call returned
    wsRaw,          \* the whispers that call generated, before sorting and limiting
    wsCalled,       \* generateWhispers has returned and its list is shown
    storedCredentials,  \* publishing: Map<Platform, PlatformCredentials>
    scheduledPosts,     \* publishing: the values of Map<string, ScheduledPost>
    pubCall,        \* the latest publish call: its request, and whether
                    \* credentials for its platform were stored when it was made
    pubResult,      \* the PublishResult that call returned
    trendCache,     \* localStorage['oracle_trending_topics'], parsed
    apiKey,         \* process.env.API_KEY is set
    trCall,         \* the latest getTrendingTopics / fetchTrendingTopics call
    synthQueue,     \* speechSynthesis: the utterances queued, the first maybe speaking
    synthSpeaking,  \* the first utterance of the queue has begun being spoken
    synthEvents,    \* events of cancelled utterances not yet dispatched
    currentUtterance,   \* narration service: currentUtterance
    runs,           \* the narrate calls made so far, each at its awaited section
    narrState,      \* the NarrationState last passed to the state callback
    stoppedRuns,    \* blueprint runs that were active at the latest
                    \* stopNarration, if no narrate call was made since
    appBlueprint,       \* CampaignProvider: blueprint (NoRecord for null)
    appHealthScore,     \* MainLayout: healthScore (NoRecord for null)
    currentCampaignId,  \* MainLayout: currentCampaignId (NoRecord for null)
    generatedAssets,    \* CampaignProvider: assets.generatedAssets, id -> url
    genPending,     \* the handleGenerate call in flight, at its await
    genCall,        \* the latest handleGenerate call that ended: the state it
                    \* started from, what the generation gave, what it reported
    epoch           \* how many times the blueprint was replaced

healthVars  == <<hsBrief, hsBlueprint, hsResult, hsFirst, hsScoredAt, hsBetween>>
storeVars   == <<campaigns, assets, templates, brandVoices, incPending, lastSaved>>
whisperVars == <<whispers, wsRaw, wsCalled>>
publishVars == <<storedCredentials, scheduledPosts, pubCall, pubResult>>
trendVars   == <<trendCache, apiKey, trCall>>
narrationVars ==
    <<synthQueue, synthSpeaking, synthEvents, currentUtterance, runs, narrState,
      stoppedRuns>>
serviceVars == <<publishVars, trendVars, narrationVars>>

appVars ==
    <<appBlueprint, appHealthScore, currentCampaignId, generatedAssets, genPending,
      genCall, epoch>>

vars == <<now, healthVars, storeVars, whisperVars, serviceVars, appVars>>

StoreNames == {"campaigns", "assets", "templates", "brandVoices"}
StoreIds == 1..2    \* record ids of the storage model
Callers == {"c1", "c2"}    \* overlapping calls of incrementTemplateUsage

HealthIdle ==
    /\ hsBrief = NoRecord /\ hsBlueprint = NoRecord /\ hsResult = NoRecord
    /\ hsFirst = NoRecord /\ hsScoredAt = -1 /\ hsBetween = FALSE

StoreEmpty ==
    /\ campaigns = {} /\ assets = {} /\ templates = {} /\ brandVoices = {}
    /\ incPending = [c \in Callers |-> NoRecord]
    /\ lastSaved = [st \in StoreNames |-> <<>>]

Platforms == {"meta", "tiktok", "linkedin", "twitter"}

\* no whispers shown, nothing published or scheduled, no cache, nothing
\* narrated; the narration state is the one the controls start with
ServicesIdle ==
    /\ whispers = <<>> /\ wsRaw = <<>> /\ wsCalled = FALSE
    /\ storedCredentials = [p \in Platforms |-> NoRecord]
    /\ scheduledPosts = {}
    /\ pubCall = NoRecord /\ pubResult = NoRecord
    /\ trendCache = NoRecord /\ trCall = NoRecord
    /\ synthQueue = <<>> /\ synthSpeaking = FALSE /\ synthEvents = <<>>
    /\ currentUtterance = NoRecord
    /\ runs = <<>>
    /\ narrState = [isPlaying |-> FALSE, isPaused |-> FALSE,
                    currentSection |-> "", progress |-> 0]
    /\ stoppedRuns = {}
    /\ appBlueprint = NoRecord /\ appHealthScore = NoRecord
    /\ currentCampaignId = NoRecord
    /\ generatedAssets = <<>>
    /\ genPending = NoRecord /\ genCall = NoRecord
    /\ epoch = 0

\* the application just loaded, with an empty database and an API key
AllIdle ==
    /\ now = 0
    /\ HealthIdle /\ StoreEmpty /\ ServicesIdle
    /\ apiKey = TRUE

(***************************************************************************)
(* IEEE-754 double arithmetic on non-negative values below 2^13.           *)
(* A value v is the limb triple <<a, b, c>> with                           *)
(*   v * 2^64 = a + b * 2^24 + c * 2^48,  a, b < 2^24.                     *)
(* Every double the code computes is >= 2^-10 or 0 and has at most 53      *)
(* significant bits, so it is a whole multiple of 2^-64.                   *)
(***************************************************************************)
RECURSIVE Pow2(_)
Pow2(k) == IF k = 0 THEN 1 ELSE 2 * Pow2(k - 1)

LimbBase == Pow2(24)

RECURSIVE BitLenInt(_)
BitLenInt(x) == IF x = 0 THEN 0 ELSE 1 + BitLenInt(x \div 2)

BigCarry(x) ==
    LET m == x[2] + (x[1] \div LimbBase)
    IN  <<x[1] % LimbBase, m % LimbBase, x[3] + (m \div LimbBase)>>

\* long division of a limb triple by an integer 1..127: quotient and remainder
BigDivSmall(x, d) ==
    LET q3 == x[3] \div d
        t2 == (x[3] % d) * LimbBase + x[2]
        q2 == t2 \div d
        t1 == (t2 % d) * LimbBase + x[1]
    IN  [q |-> <<t1 \div d, q2, q3>>, r |-> t1 % d]

BigBitLen(x) ==
    IF x[3] > 0 THEN 48 + BitLenInt(x[3])
    ELSE IF x[2] > 0 THEN 24 + BitLenInt(x[2])
    ELSE BitLenInt(x[1])

BigLess(x, y) ==
    \/ x[3] < y[3]
    \/ x[3] = y[3] /\ x[2] < y[2]
    \/ x[3] = y[3] /\ x[2] = y[2] /\ x[1] < y[1]

\* round-to-nearest, ties-to-even, to 53 significant bits; sticky says that
\* the exact value lies strictly above x (by less than 2^-64)
DRound(x, sticky) ==
    LET s == BigBitLen(x) - 53
    IN  IF s <= 0 THEN x
        ELSE LET unit == Pow2(s)
                 r    == x[1] % unit
                 half == unit \div 2
                 odd  == IF s = 24 THEN x[2] % 2 = 1
                                   ELSE (x[1] \div unit) % 2 = 1
                 up   == \/ r > half
                         \/ r = half /\ (sticky \/ odd)
             IN  BigCarry(<<x[1] - r + (IF up THEN unit ELSE 0), x[2], x[3]>>)

DFromInt(k) == <<0, 0, k * Pow2(16)>>

\* double + double
DAdd(x, y) == DRound(BigCarry(<<x[1] + y[1], x[2] + y[2], x[3] + y[3]>>), FALSE)

\* double * integer-valued double
DMulInt(x, k) == DRound(BigCarry(<<x[1] * k, x[2] * k, x[3] * k>>), FALSE)

\* double / integer-valued double
DDivInt(x, d) ==
    LET qr == BigDivSmall(x, d)
    IN  DRound(qr.q, qr.r > 0)

\* the double nearest to the decimal literal num/den
DLiteral(num, den) == DDivInt(DFromInt(num), den)

\* Math.round of a non-negative double: floor(x + 0.5)
MathRound(x) == (x[3] + Pow2(15)) \div Pow2(16)

Min(a, b) == IF a < b THEN a ELSE b
Max(a, b) == IF a > b THEN a ELSE b

RECURSIVE SumSeq(_)
SumSeq(s) == IF s = <<>> THEN 0 ELSE Head(s) + SumSeq(Tail(s))


(***************************************************************************)
(* Strings.  Only pillar names are compared as text (toLowerCase and       *)
(* includes); they are sequences of one-character strings.  Hooks,         *)
(* emotions and calls to action enter the rubric only through the results  *)
(* of their length and pattern tests, which is what their records hold.    *)
(***************************************************************************)
toLowerCase(s) ==
    [i \in DOMAIN s |-> CASE s[i] = "M" -> "m"
                          [] s[i] = "X" -> "x"
                          [] OTHER -> s[i]]

includes(s, t) ==
    \E i \in 0..(Len(s) - Len(t)) : SubSeq(s, i + 1, i + Len(t)) = t

\* Array.prototype.some / filter(...).length over a sequence
Some(s, P(_)) == \E i \in DOMAIN s : P(s[i])
CountIf(s, P(_)) == Cardinality({i \in DOMAIN s : P(s[i])})

(***************************************************************************)
(* Health score (services/healthScore)                                     *)
(***************************************************************************)
QuantityKeys ==
    <<"memes", "static_banners", "short_vertical_videos", "ugc_scripts", "carousels">>

FrequencyKeys ==
    {"humor", "relatability", "shock", "inspiration", "identity_shift"}

analyzeNarrativeStrength(blueprint) ==
    LET hookScore    == Min(Len(blueprint.hooks) * 5, 25)
        painScore    == Min(blueprint.pain_points * 5, 20)
        transScore   == Min(blueprint.micro_transformations * 5, 20)
        taglineScore == Min(blueprint.taglines * 4, 20)
        summaryScore == (IF blueprint.one_liner > 10 THEN 5 ELSE 0)
                      + (IF blueprint.core_promise > 10 THEN 5 ELSE 0)
                      + (IF blueprint.tone_description > 10 THEN 5 ELSE 0)
    IN  Min(hookScore + painScore + transScore + taglineScore + summaryScore, 100)

analyzeEmotionalBalance(brief, blueprint) ==
    LET freq     == brief.emotional_frequency
        emotions == blueprint.primary_emotions
        mix      == IF Len(emotions) >= 2 /\ Len(emotions) <= 5 THEN 20 ELSE 0
        hasPositive == Some(emotions, LAMBDA e : e.positive)
        hasTension  == Some(emotions, LAMBDA e : e.tension)
        maxFreq  == CHOOSE v \in {freq[k] : k \in FrequencyKeys} :
                        \A k \in FrequencyKeys : freq[k] <= v
        minFreq  == CHOOSE v \in {freq[k] : k \in FrequencyKeys} :
                        \A k \in FrequencyKeys : freq[k] >= v
        score    == 50 + mix
                       + (IF hasPositive THEN 15 ELSE 0)
                       + (IF hasTension THEN 15 ELSE 0)
                       - (IF maxFreq - minFreq > 7 THEN 15 ELSE 0)
    IN  Max(0, Min(score, 100))

\* blueprint array that answers a requested quantity key
generatedCount(blueprint, key) ==
    CASE key = "memes" -> blueprint.memes
      [] key = "static_banners" -> blueprint.static_banners
      [] key = "short_vertical_videos" -> blueprint.short_videos
      [] key = "ugc_scripts" -> blueprint.ugc_scripts
      [] key = "carousels" -> blueprint.carousels

\* one iteration of the forEach over the requested keys
coverageStep_uncapped(acc, req, gen) ==
    IF req > 0
    THEN [totalRequested |-> acc.totalRequested + 1,
          totalGenerated |-> IF gen > 0
                             THEN DAdd(acc.totalGenerated, DDivInt(DFromInt(gen), req))
                             ELSE acc.totalGenerated]
    ELSE acc

coverageStep(acc, req, gen) ==
    IF req > 0
    THEN [totalRequested |-> acc.totalRequested + 1,
          totalGenerated |-> IF gen >= req
                             THEN DAdd(acc.totalGenerated, DFromInt(1))
                             ELSE IF gen > 0
                             THEN DAdd(acc.totalGenerated, DDivInt(DFromInt(gen), req))
                             ELSE acc.totalGenerated]
    ELSE acc

RECURSIVE coverageFold(_, _, _)
coverageFold(brief, blueprint, n) ==
    IF n = 0 THEN [totalRequested |-> 0, totalGenerated |-> DFromInt(0)]
    ELSE coverageStep(coverageFold(brief, blueprint, n - 1),
                      brief.quantities[QuantityKeys[n]],
                      generatedCount(blueprint, QuantityKeys[n]))

analyzeAssetCoverage(brief, blueprint) ==
    LET acc == coverageFold(brief, blueprint, Len(QuantityKeys))
    IN  IF acc.totalRequested > 0
        THEN MathRound(DMulInt(DDivInt(acc.totalGenerated, acc.totalRequested), 100))
        ELSE 100

hookPoints(hook) ==
      (IF hook.length >= 20 /\ hook.length <= 100 THEN 10
       ELSE IF hook.length < 20 THEN 5 ELSE 0)
    + (IF hook.hasQuestion THEN 5 ELSE 0)
    + (IF hook.hasNumber THEN 3 ELSE 0)
    + (IF hook.hasEmotionWord THEN 5 ELSE 0)
    + (IF hook.hasYou THEN 2 ELSE 0)

analyzeHookQuality(blueprint) ==
    LET hooks == blueprint.hooks
        score == SumSeq([i \in DOMAIN hooks |-> hookPoints(hooks[i])])
    IN  IF Len(hooks) = 0 THEN 0
        ELSE Min(MathRound(DMulInt(DDivInt(DFromInt(score), Len(hooks)), 4)), 100)

analyzeCtaClarity(blueprint) ==
    LET ctas == blueprint.cta_variants
        variety == IF Len(ctas) >= 3 THEN 20 ELSE IF Len(ctas) >= 2 THEN 10 ELSE 0
        hasActionWords == Some(ctas, LAMBDA c : c.actionWord)
        hasUrgency     == Some(ctas, LAMBDA c : c.urgencyWord)
    IN  IF Len(ctas) = 0 THEN 30
        ELSE Min(50 + variety + (IF hasActionWords THEN 15 ELSE 0)
                              + (IF hasUrgency THEN 15 ELSE 0), 100)

analyzePillarAlignment(brief, blueprint) ==
    LET requestedPillars == brief.pillars
        generatedPillars == blueprint.pillars
        matchCount == CountIf(requestedPillars,
                         LAMBDA p : Some(generatedPillars,
                             LAMBDA gp : includes(toLowerCase(gp), toLowerCase(p))))
    IN  IF Len(requestedPillars) = 0 THEN 100
        ELSE MathRound(DMulInt(DDivInt(DFromInt(matchCount), Len(requestedPillars)), 100))

\* an insight that also records when it was produced
Insight_stamped(type, category, message, impact) ==
    [type |-> type, category |-> category, message |-> message, impact |-> impact,
     createdAt |-> now]

Insight(type, category, message, impact) ==
    [type |-> type, category |-> category, message |-> message, impact |-> impact]

generateInsights(brief, blueprint, breakdown) ==
       (IF breakdown.narrativeStrength >= 80
        THEN <<Insight("strength", "Narrative",
                 "Strong narrative foundation with compelling hooks and transformations.", "high")>>
        ELSE IF breakdown.narrativeStrength < 50
        THEN <<Insight("warning", "Narrative",
                 "Narrative needs more hooks and pain point articulation.", "high")>>
        ELSE <<>>)
    \o (IF breakdown.emotionalBalance >= 75
        THEN <<Insight("strength", "Emotion",
                 "Well-balanced emotional mix creates compelling tension.", "medium")>>
        ELSE IF breakdown.emotionalBalance < 50
        THEN <<Insight("warning", "Emotion",
                 "Emotional frequencies are imbalanced. Consider adjusting.", "medium")>>
        ELSE <<>>)
    \o (IF breakdown.assetCoverage < 80
        THEN <<Insight("warning", "Assets",
                 "Some requested asset types are under-delivered.", "medium")>>
        ELSE <<>>)
    \o (IF breakdown.hookQuality >= 80
        THEN <<Insight("strength", "Hooks",
                 "Scroll-stopping hooks with strong pattern interrupts.", "high")>>
        ELSE IF breakdown.hookQuality < 50
        THEN <<Insight("opportunity", "Hooks",
                 "Hooks could be punchier. Add questions or numbers.", "high")>>
        ELSE <<>>)
    \o (IF breakdown.ctaClarity >= 80
        THEN <<Insight("strength", "CTAs",
                 "Clear, action-oriented calls to action.", "medium")>>
        ELSE <<>>)
    \o (IF breakdown.pillarAlignment < 100 /\ breakdown.pillarAlignment > 0
        THEN <<Insight("warning", "Strategy",
                 "Not all strategic pillars are reflected in the blueprint.", "low")>>
        ELSE <<>>)

generateRecommendations(breakdown, insights) ==
    LET recommendations ==
               (IF breakdown.hookQuality < 70
                THEN <<"Add more questions and numbers to your hooks for higher engagement.">>
                ELSE <<>>)
            \o (IF breakdown.emotionalBalance < 60
                THEN <<"Balance positive emotions (inspiration, hope) with tension (urgency, FOMO).">>
                ELSE <<>>)
            \o (IF breakdown.narrativeStrength < 60
                THEN <<"Develop more micro-transformations to show the journey.">>
                ELSE <<>>)
            \o (IF breakdown.ctaClarity < 60
                THEN <<"Use stronger action verbs in CTAs: Unlock, Claim, Transform.">>
                ELSE <<>>)
            \o (IF breakdown.assetCoverage < 80
                THEN <<"Consider regenerating the blueprint to meet all asset requirements.">>
                ELSE <<>>)
    IN  IF Len(recommendations) = 0
        THEN <<"Campaign is strong. Consider A/B testing hooks for optimization.">>
        ELSE recommendations

\* the weights of the rubric, as the doubles their literals denote
weights ==
    [narrativeStrength |-> DLiteral(20, 100),
     emotionalBalance  |-> DLiteral(15, 100),
     assetCoverage     |-> DLiteral(20, 100),
     hookQuality       |-> DLiteral(20, 100),
     ctaClarity        |-> DLiteral(15, 100),
     pillarAlignment   |-> DLiteral(10, 100)]

overallScore(breakdown) ==
    MathRound(
        DAdd(DAdd(DAdd(DAdd(DAdd(
            DMulInt(weights.narrativeStrength, breakdown.narrativeStrength),
            DMulInt(weights.emotionalBalance, breakdown.emotionalBalance)),
            DMulInt(weights.assetCoverage, breakdown.assetCoverage)),
            DMulInt(weights.hookQuality, breakdown.hookQuality)),
            DMulInt(weights.ctaClarity, breakdown.ctaClarity)),
            DMulInt(weights.pillarAlignment, breakdown.pillarAlignment)))

analyzeHealthScore(brief, blueprint) ==
    LET breakdown ==
            [narrativeStrength |-> analyzeNarrativeStrength(blueprint),
             emotionalBalance  |-> analyzeEmotionalBalance(brief, blueprint),
             assetCoverage     |-> analyzeAssetCoverage(brief, blueprint),
             hookQuality       |-> analyzeHookQuality(blueprint),
             ctaClarity        |-> analyzeCtaClarity(blueprint),
             pillarAlignment   |-> analyzePillarAlignment(brief, blueprint)]
        insights  == generateInsights(brief, blueprint, breakdown)
    IN  [overall         |-> overallScore(breakdown),
         breakdown       |-> breakdown,
         insights        |-> insights,
         recommendations |-> generateRecommendations(breakdown, insights)]


(***************************************************************************)
(* Inputs of the health score: one family of fields varies over its whole  *)
(* bounded range while the others stay at one of the base values.          *)
(***************************************************************************)
SeqsUpTo(S, n) == UNION {[1..k -> S] : k \in 0..n}
Repeat(x, k) == [i \in 1..k |-> x]

BriefPlain ==
    [emotional_frequency |-> [k \in FrequencyKeys |-> 5],
     quantities |-> [k \in {QuantityKeys[i] : i \in DOMAIN QuantityKeys} |-> 0],
     pillars |-> <<>>]

BriefDefault ==
    [emotional_frequency |-> [humor |-> 8, relatability |-> 9, shock |-> 6,
                              inspiration |-> 7, identity_shift |-> 8],
     quantities |-> [memes |-> 4, static_banners |-> 2, short_vertical_videos |-> 2,
                     ugc_scripts |-> 1, carousels |-> 1],
     pillars |-> <<<<"m">>, <<"x">>, <<"M", "x">>>>]

BlueprintEmpty ==
    [hooks |-> <<>>, pain_points |-> 0, micro_transformations |-> 0, taglines |-> 0,
     cta_variants |-> <<>>, one_liner |-> 0, core_promise |-> 0, tone_description |-> 0,
     primary_emotions |-> <<>>, pillars |-> <<>>,
     memes |-> 0, static_banners |-> 0, short_videos |-> 0, ugc_scripts |-> 0,
     carousels |-> 0]

BlueprintRich ==
    [hooks |-> Repeat([length |-> 40, hasQuestion |-> TRUE, hasNumber |-> TRUE,
                       hasEmotionWord |-> TRUE, hasYou |-> TRUE], 5),
     pain_points |-> 4, micro_transformations |-> 4, taglines |-> 5,
     cta_variants |-> Repeat([actionWord |-> TRUE, urgencyWord |-> TRUE], 3),
     one_liner |-> 11, core_promise |-> 11, tone_description |-> 11,
     primary_emotions |-> <<[positive |-> TRUE, tension |-> FALSE],
                            [positive |-> FALSE, tension |-> TRUE]>>,
     pillars |-> <<<<"M">>, <<"X">>>>,
     memes |-> 4, static_banners |-> 2, short_videos |-> 2, ugc_scripts |-> 1,
     carousels |-> 1]

BlueprintSparse ==
    [BlueprintEmpty EXCEPT
        !.hooks = <<[length |-> 40, hasQuestion |-> TRUE, hasNumber |-> TRUE,
                     hasEmotionWord |-> FALSE, hasYou |-> FALSE]>>,
        !.taglines = 1,
        !.cta_variants = <<[actionWord |-> FALSE, urgencyWord |-> FALSE]>>,
        !.primary_emotions = Repeat([positive |-> FALSE, tension |-> FALSE], 2),
        !.pillars = <<<<"M">>>>]

\* the inputs under which the score is computed repeatedly
RepeatInputs ==
    LET BaseInputs ==
            {<<BriefPlain, BlueprintEmpty>>, <<BriefDefault, BlueprintRich>>,
             <<[BriefPlain EXCEPT !.pillars = <<<<"m">>, <<"x">>, <<"x", "x">>>>],
               BlueprintSparse>>}

        CtaInputs ==
            {<<b[1], [b[2] EXCEPT !.cta_variants = c]>> :
                b \in {<<BriefPlain, BlueprintEmpty>>, <<BriefDefault, BlueprintRich>>},
                c \in SeqsUpTo([actionWord : BOOLEAN, urgencyWord : BOOLEAN], MaxCtas)}

        PillarInputs ==
            {<<[BriefPlain EXCEPT !.pillars = r], [b EXCEPT !.pillars = g]>> :
                b \in {BlueprintEmpty, BlueprintSparse},
                r \in SeqsUpTo({<<"m">>, <<"x">>, <<"M", "x">>}, MaxPillars),
                g \in SeqsUpTo({<<>>, <<"M">>, <<"x", "m">>, <<"m", "X">>}, 2)}
    IN  BaseInputs \cup CtaInputs \cup PillarInputs

HealthInputs ==
    LET HookShapes ==
            [length : {12, 40, 120}, hasQuestion : BOOLEAN, hasNumber : BOOLEAN,
             hasEmotionWord : BOOLEAN, hasYou : BOOLEAN]
        EmotionShapes == [positive : BOOLEAN, tension : BOOLEAN]
        NarrativeInputs ==
            {<<b[1], [b[2] EXCEPT !.pain_points = p, !.micro_transformations = t,
                                  !.taglines = g, !.one_liner = l[1],
                                  !.core_promise = l[2], !.tone_description = l[3]]>> :
                b \in {<<BriefPlain, BlueprintEmpty>>, <<BriefDefault, BlueprintRich>>},
                p \in 0..MaxItems, t \in 0..MaxItems, g \in 0..MaxItems,
                l \in {0, 10, 11} \X {0, 11} \X {0, 11}}

        HookInputs ==
            {<<BriefDefault, [BlueprintRich EXCEPT !.hooks = h]>> :
                h \in SeqsUpTo(HookShapes, 2)
                      \cup {Repeat(x, k) : x \in HookShapes, k \in 3..MaxHooks}}

        EmotionInputs ==
            {<<[BriefPlain EXCEPT !.emotional_frequency =
                                      [BriefPlain.emotional_frequency EXCEPT !.humor = f[1], !.shock = f[2]]],
               [BlueprintRich EXCEPT !.primary_emotions = e]>> :
                f \in {1, 2, 5, 9, 10} \X {1, 10},
                e \in SeqsUpTo(EmotionShapes, 3)
                      \cup {Repeat(x, k) : x \in EmotionShapes, k \in 4..MaxEmotions}}

        AssetInputs ==
            {<<[BriefPlain EXCEPT !.quantities =
                                      [BriefPlain.quantities EXCEPT !.memes = r[1], !.static_banners = r[2],
                                                           !.short_vertical_videos = r[3]]],
               [BlueprintSparse EXCEPT !.memes = g[1], !.static_banners = g[2],
                                       !.short_videos = g[3]]>> :
                r \in (0..MaxQty) \X (0..MaxQty) \X {1},
                g \in (0..MaxQty) \X (0..MaxQty) \X {0, 1}}
    IN  RepeatInputs \cup NarrativeInputs \cup HookInputs \cup EmotionInputs
                     \cup AssetInputs

(***************************************************************************)
(* The clock                                                               *)
(***************************************************************************)
Tick(d) ==
    /\ now + d <= MaxNow
    /\ now' = now + d
    /\ UNCHANGED <<healthVars, storeVars, whisperVars, appVars, serviceVars>>

(***************************************************************************)
(* Health score: the brief and the blueprint are given at the start.       *)
(***************************************************************************)
HealthStart(inputs) ==
    /\ now = 0
    /\ \E in \in inputs : hsBrief = in[1] /\ hsBlueprint = in[2]
    /\ hsResult = NoRecord
    /\ hsFirst = NoRecord
    /\ hsScoredAt = -1
    /\ hsBetween = FALSE
    /\ StoreEmpty
    /\ ServicesIdle
    /\ apiKey = TRUE

\* the effect on [blueprint, brief] and the handlers that score: the score
\* shown is the score of the current brief and blueprint
AnalyzeHealth ==
    /\ hsResult' = analyzeHealthScore(hsBrief, hsBlueprint)
    /\ hsFirst' = IF hsFirst = NoRecord
                  THEN [brief |-> hsBrief, blueprint |-> hsBlueprint,
                        result |-> hsResult', at |-> now]
                  ELSE hsFirst
    /\ hsScoredAt' = now
    /\ UNCHANGED <<now, hsBrief, hsBlueprint, hsBetween, storeVars, whisperVars, appVars, serviceVars>>

\* handleLoadCampaign: another stored campaign replaces brief and blueprint
\* and is scored
LoadCampaign(brief, blueprint) ==
    /\ hsFirst # NoRecord
    /\ <<brief, blueprint>> # <<hsBrief, hsBlueprint>>
    /\ hsBrief' = brief
    /\ hsBlueprint' = blueprint
    /\ hsResult' = analyzeHealthScore(brief, blueprint)
    /\ hsScoredAt' = now
    /\ hsBetween' = (hsBetween \/ <<brief, blueprint>> # <<hsFirst.brief, hsFirst.blueprint>>)
    /\ UNCHANGED <<now, hsFirst, storeVars, whisperVars, appVars, serviceVars>>

SpecHealth == HealthStart(HealthInputs) /\ [][AnalyzeHealth]_vars

SpecHealthRepeat ==
    /\ HealthStart(RepeatInputs)
    /\ [][\/ AnalyzeHealth
          \/ LoadCampaign(BriefDefault, BlueprintRich)
          \/ hsFirst # NoRecord /\ LoadCampaign(hsFirst.brief, hsFirst.blueprint)
          \/ Tick(16 * DAY)]_vars

\* C1: the overall score and each of the six breakdown scores returned by
\* analyzeHealthScore is an integer in 0..100.
C1_ScoresInRange ==
    hsResult # NoRecord =>
        /\ hsResult.overall \in 0..100
        /\ \A k \in DOMAIN hsResult.breakdown : hsResult.breakdown[k] \in 0..100

\* a scored blueprint that over-delivers a requested format and still
\* covers exactly 100
C1_Witness ==
    /\ hsResult # NoRecord
    /\ hsBrief.quantities.memes > 0
    /\ hsBlueprint.memes > hsBrief.quantities.memes
    /\ hsResult.breakdown.assetCoverage = 100

C3_WeightedRubric ==
    hsResult # NoRecord =>
        \* the rubric in exact arithmetic: hundredths of the weighted sum
        LET breakdown == hsResult.breakdown
            weightedHundredths ==
                  20 * breakdown.narrativeStrength + 15 * breakdown.emotionalBalance
                + 20 * breakdown.assetCoverage + 20 * breakdown.hookQuality
                + 15 * breakdown.ctaClarity + 10 * breakdown.pillarAlignment
        IN
        /\ 20 + 15 + 20 + 20 + 15 + 10 = 100
        /\ hsResult.overall = (weightedHundredths + 50) \div 100
        /\ \A k \in DOMAIN hsResult.breakdown :
               hsResult.breakdown[k] < 100 =>
                   overallScore([hsResult.breakdown EXCEPT ![k] = @ + 1])
                       >= hsResult.overall

(***************************************************************************)
(* Oracle Memory (services/storageService): four IndexedDB object stores   *)
(* with key path 'id'.  A store is the set of the records it holds.        *)
(***************************************************************************)
MaxUsage == 2       \* usageCount values a template is stepped through

\* IDBObjectStore.put with a second record under the same key kept
put_keepOld(store, record) == store \cup {record}

\* IDBObjectStore.put: the record replaces the one with the same key
put(store, record) == {r \in store : r.id # record.id} \cup {record}

\* IDBObjectStore.get: the record under the key, or undefined
get(store, id) ==
    IF \E r \in store : r.id = id
    THEN CHOOSE r \in store : r.id = id
    ELSE NoRecord

\* IDBObjectStore.delete
delete(store, id) == {r \in store : r.id # id}

\* index(key).getAll().reverse(): descending by the index key, records with
\* equal keys descending by id
RECURSIVE getAllReversed(_, _)
getAllReversed(store, key) ==
    IF store = {} THEN <<>>
    ELSE LET top == CHOOSE r \in store : \A o \in store :
                        \/ o[key] < r[key]
                        \/ o[key] = r[key] /\ o.id <= r.id
         IN  <<top>> \o getAllReversed(store \ {top}, key)

getAllCampaigns == getAllReversed(campaigns, "updatedAt")
getAllAssets == getAllReversed(assets, "createdAt")

Store(name) ==
    CASE name = "campaigns" -> campaigns
      [] name = "assets" -> assets
      [] name = "templates" -> templates
      [] name = "brandVoices" -> brandVoices

AllPillars == <<"primal_flow_fusion", "animator_shift", "moments">>

\* the records the application writes
StoredCampaign(id, healthScore, pillars, at) ==
    [id |-> id, healthScore |-> healthScore, pillars |-> pillars,
     createdAt |-> at, updatedAt |-> at]
StoredAsset(id, type, at) == [id |-> id, type |-> type, createdAt |-> at]

\* the map a store is expected to be, id -> record of the last save, after a
\* save and after a delete
Saved(name, record) ==
    lastSaved' = [lastSaved EXCEPT ![name] =
                    [i \in DOMAIN @ \cup {record.id} |->
                        IF i = record.id THEN record ELSE @[i]]]
Deleted(name, id) ==
    lastSaved' = [lastSaved EXCEPT ![name] = [i \in DOMAIN @ \ {id} |-> @[i]]]

saveCampaign(campaign) ==
    /\ campaigns' = put(campaigns, campaign)
    /\ Saved("campaigns", campaign)
    /\ UNCHANGED <<now, assets, templates, brandVoices, incPending, healthVars, whisperVars, appVars, serviceVars>>

deleteCampaign(id) ==
    /\ get(campaigns, id) # NoRecord
    /\ campaigns' = delete(campaigns, id)
    /\ Deleted("campaigns", id)
    /\ UNCHANGED <<now, assets, templates, brandVoices, incPending, healthVars, whisperVars, appVars, serviceVars>>

saveAsset(asset) ==
    /\ assets' = put(assets, asset)
    /\ Saved("assets", asset)
    /\ UNCHANGED <<now, campaigns, templates, brandVoices, incPending, healthVars, whisperVars, appVars, serviceVars>>

deleteAsset(id) ==
    /\ get(assets, id) # NoRecord
    /\ assets' = delete(assets, id)
    /\ Deleted("assets", id)
    /\ UNCHANGED <<now, campaigns, templates, brandVoices, incPending, healthVars, whisperVars, appVars, serviceVars>>

saveTemplate(template) ==
    /\ templates' = put(templates, template)
    /\ Saved("templates", template)
    /\ UNCHANGED <<now, campaigns, assets, brandVoices, incPending, healthVars, whisperVars, appVars, serviceVars>>

deleteTemplate(id) ==
    /\ get(templates, id) # NoRecord
    /\ templates' = delete(templates, id)
    /\ Deleted("templates", id)
    /\ UNCHANGED <<now, campaigns, assets, brandVoices, incPending, healthVars, whisperVars, appVars, serviceVars>>

saveBrandVoice(voice) ==
    /\ brandVoices' = put(brandVoices, voice)
    /\ Saved("brandVoices", voice)
    /\ UNCHANGED <<now, campaigns, assets, templates, incPending, healthVars, whisperVars, appVars, serviceVars>>

deleteBrandVoice(id) ==
    /\ get(brandVoices, id) # NoRecord
    /\ brandVoices' = delete(brandVoices, id)
    /\ Deleted("brandVoices", id)
    /\ UNCHANGED <<now, campaigns, assets, templates, incPending, healthVars, whisperVars, appVars, serviceVars>>

\* incrementTemplateUsage up to its await of saveTemplate: the template is
\* read in one transaction and its copy incremented (a missing template ends
\* the call with nothing done)
incrementTemplateUsage_read(caller, id) ==
    /\ incPending[caller] = NoRecord
    /\ get(templates, id) # NoRecord
    /\ get(templates, id).usageCount < MaxUsage
    /\ incPending' = [incPending EXCEPT ![caller] =
                        [get(templates, id) EXCEPT !.usageCount = @ + 1]]
    /\ UNCHANGED <<now, campaigns, assets, templates, brandVoices, lastSaved,
                   healthVars, whisperVars, appVars, serviceVars>>

\* ... and its saveTemplate, a second transaction
incrementTemplateUsage_save(caller) ==
    /\ incPending[caller] # NoRecord
    /\ templates' = put(templates, incPending[caller])
    /\ Saved("templates", incPending[caller])
    /\ incPending' = [incPending EXCEPT ![caller] = NoRecord]
    /\ UNCHANGED <<now, campaigns, assets, brandVoices, healthVars, whisperVars, appVars, serviceVars>>

SpecStore ==
    /\ AllIdle
    /\ [][\/ \E id \in StoreIds, h \in {40, 90} :
                 saveCampaign(StoredCampaign(id, h, <<AllPillars[1]>>, now))
          \/ \E id \in StoreIds : deleteCampaign(id)
          \/ \E id \in StoreIds : saveAsset(StoredAsset(id, "meme", now))
          \/ \E id \in StoreIds : deleteAsset(id)
          \/ \E id \in StoreIds : saveTemplate([id |-> id, usageCount |-> 0, createdAt |-> now])
          \/ \E id \in StoreIds : deleteTemplate(id)
          \/ \E id \in StoreIds : saveBrandVoice([id |-> id, name |-> "voice", createdAt |-> now])
          \/ \E id \in StoreIds : deleteBrandVoice(id)
          \/ \E c \in Callers, id \in StoreIds : incrementTemplateUsage_read(c, id)
          \/ \E c \in Callers : incrementTemplateUsage_save(c)]_vars

\* C6: each of the four stores behaves as a key-value map on id: get(id)
\* returns the record of the last save under that id, or nothing when the id
\* was never saved or was deleted since, and no store holds two records
\* under one id.
C6_StoresAreMaps ==
    \A name \in StoreNames : \A id \in StoreIds :
        /\ get(Store(name), id) = IF id \in DOMAIN lastSaved[name]
                                 THEN lastSaved[name][id] ELSE NoRecord
        /\ Cardinality({r \in Store(name) : r.id = id}) <= 1

\* a campaign was saved twice under one id with different contents, and a
\* template was deleted after it had been saved
C6_Witness ==
    /\ get(campaigns, 1) # NoRecord
    /\ get(campaigns, 1).healthScore = 90
    /\ get(campaigns, 2) # NoRecord
    /\ get(campaigns, 2).healthScore = 40
    /\ get(templates, 1) # NoRecord
    /\ get(templates, 1).usageCount = 2
    /\ get(templates, 2) = NoRecord
    /\ get(brandVoices, 1) # NoRecord
    /\ get(assets, 2) # NoRecord

(***************************************************************************)
(* Proactive whispers (services/whisperService).  A whisper keeps its id,  *)
(* type, category, priority and createdAt; titles, messages and icons are  *)
(* fixed texts per kind and are left out.  The id `whisper_<kind>_<now>`   *)
(* is the tuple <<kind, subject, now>>.                                     *)
(***************************************************************************)
WhisperLimit == 5

\* the epoch of the clock is Sunday 29 November 2026, 00:00 local time
\* (day 332 of the year, weekday 0)

\* Date.prototype.getMonth: 0 = January ... 11 = December
getMonth(t) ==
    LET MonthStarts == <<0, 31, 59, 90, 120, 151, 181, 212, 243, 273, 304, 334>>
        dayOfYear == (332 + t \div DAY) % 365
    IN  Cardinality({m \in DOMAIN MonthStarts : MonthStarts[m] <= dayOfYear}) - 1

\* Date.prototype.getDay: 0 = Sunday ... 6 = Saturday
getDay(t) == (0 + t \div DAY) % 7

Whisper(kind, subject, type, category, priority) ==
    [id |-> <<kind, subject, now>>, type |-> type, category |-> category,
     priority |-> priority, createdAt |-> now]

OneIf(cond, whisper) == IF cond THEN <<whisper>> ELSE <<>>

\* Object.entries(byType): the asset types in the order of first appearance
RECURSIVE typesOf(_)
typesOf(as) ==
    IF as = <<>> THEN <<>>
    ELSE <<Head(as).type>> \o
         SelectSeq(typesOf(Tail(as)), LAMBDA t : t # Head(as).type)

analyzeAssetDistribution(as) ==
    IF Len(as) = 0 THEN <<>>
    ELSE
    LET byType(type) == CountIf(as, LAMBDA a : a.type = type)
        total == Len(as)
        assetTypes == <<"meme", "banner", "storyboard", "carousel">>
        underused == SelectSeq(assetTypes, LAMBDA type :
            \/ byType(type) = 0
            \/ BigLess(DFromInt(byType(type)), DMulInt(DLiteral(1, 10), total)))
        overused == SelectSeq(typesOf(as), LAMBDA type :
            BigLess(DMulInt(DLiteral(6, 10), total), DFromInt(byType(type))))
    IN  [i \in 1..Len(underused) |->
            Whisper("whisper_asset", underused[i], "suggestion", "assets", "medium")]
        \o
        [i \in 1..Len(overused) |->
            Whisper("whisper_overuse", overused[i], "insight", "assets", "low")]

analyzeCampaignPatterns(cs) ==
    IF Len(cs) < 2 THEN <<>>
    ELSE
    LET recentCampaigns == SubSeq(cs, 1, Min(5, Len(cs)))
        scores == [i \in DOMAIN recentCampaigns |-> recentCampaigns[i].healthScore]
        avgHealth == DDivInt(DFromInt(SumSeq(scores)), Len(recentCampaigns))
    IN  (IF BigLess(avgHealth, DFromInt(60))
         THEN <<Whisper("whisper_health", "", "warning", "optimization", "high")>>
         ELSE IF ~BigLess(avgHealth, DFromInt(80))
         THEN <<Whisper("whisper_health_good", "", "insight", "optimization", "low")>>
         ELSE <<>>)
        \o
        OneIf(Len(recentCampaigns) >= 3 /\ scores[1] < scores[2] /\ scores[2] < scores[3],
              Whisper("whisper_declining", "", "warning", "optimization", "high"))

analyzeTimingPatterns(cs) ==
    IF Len(cs) = 0 THEN <<>>
    ELSE
    LET lastCampaign == cs[1]
        daysSinceLast == (now - lastCampaign.updatedAt) \div DAY
        thisWeek == CountIf(cs, LAMBDA c : c.createdAt > now - 7 * DAY)
    IN  OneIf(daysSinceLast > 14,
              Whisper("whisper_inactive", "", "suggestion", "timing", "medium"))
        \o
        OneIf(thisWeek >= 5,
              Whisper("whisper_prolific", "", "insight", "timing", "low"))

\* generateOpportunities with the carousel suggestion made whatever the
\* number of stored campaigns
generateOpportunities_anyHistory(cs, as) ==
    LET carouselCount == CountIf(as, LAMBDA a : a.type = "carousel")
    IN  OneIf(getMonth(now) = 11 \/ getMonth(now) = 0,
              Whisper("whisper_seasonal", "", "opportunity", "trends", "medium"))
        \o
        OneIf(getDay(now) = 1,
              Whisper("whisper_monday", "", "opportunity", "timing", "low"))
        \o
        OneIf(carouselCount < 3,
              Whisper("whisper_carousel", "", "opportunity", "trends", "medium"))

generateOpportunities(cs, as) ==
    LET month == getMonth(now)
        dayOfWeek == getDay(now)
        carouselCount == CountIf(as, LAMBDA a : a.type = "carousel")
    IN  OneIf(month = 11 \/ month = 0,
              Whisper("whisper_seasonal", "", "opportunity", "trends", "medium"))
        \o
        OneIf(dayOfWeek = 1,
              Whisper("whisper_monday", "", "opportunity", "timing", "low"))
        \o
        OneIf(carouselCount < 3 /\ Len(cs) > 2,
              Whisper("whisper_carousel", "", "opportunity", "trends", "medium"))

analyzePillarUsage(cs) ==
    IF Len(cs) < 3 THEN <<>>
    ELSE
    LET pillarCount(p) ==
            SumSeq([i \in DOMAIN cs |-> CountIf(cs[i].pillars, LAMBDA q : q = p)])
        total == Len(cs)
        underused == SelectSeq(AllPillars, LAMBDA pillar :
            \/ pillarCount(pillar) = 0
            \/ BigLess(DFromInt(pillarCount(pillar)), DMulInt(DLiteral(2, 10), total)))
    IN  [i \in 1..Len(underused) |->
            Whisper("whisper_pillar", underused[i], "suggestion", "optimization", "low")]

priorityOrder == [high |-> 0, medium |-> 1, low |-> 2]

\* the list left in the order the analyses pushed it
sortByPriority_unsorted(ws) == ws

\* Array.prototype.sort with the priority comparator (a stable sort)
sortByPriority(ws) ==
    SelectSeq(ws, LAMBDA w : priorityOrder[w.priority] = 0)
        \o SelectSeq(ws, LAMBDA w : priorityOrder[w.priority] = 1)
        \o SelectSeq(ws, LAMBDA w : priorityOrder[w.priority] = 2)

slice(s, from, to) == SubSeq(s, from + 1, Min(to, Len(s)))

\* generateWhispers, given what the try block pushed before it ended
generateWhispers(pushed) == slice(sortByPriority(pushed), 0, WhisperLimit)

(***************************************************************************)
(* Stored histories the whisper generator is run on.  Campaigns are        *)
(* written by handleGenerate only (createdAt = updatedAt = time of the     *)
(* call, one pillar list, the overall health score); assets by the         *)
(* blueprint view only, as memes or storyboards.                           *)
(***************************************************************************)
MaxCampaigns == 6

\* n campaigns, the newest made `age` hours ago and each older one `gap`
\* hours before the next; the three newest have the health scores hs, the
\* newest the pillars p0 and the others the pillars p
CampaignHistory(n, hs, age, gap, p0, p, t) ==
    {StoredCampaign(n + 1 - k,
                    IF k <= Len(hs) THEN hs[k] ELSE 70,
                    IF k = 1 THEN p0 ELSE p,
                    t - (age + (k - 1) * gap)) : k \in 1..n}

AssetHistory(memes, storyboards) ==
    {StoredAsset(k, IF k <= memes THEN "meme" ELSE "storyboard", -k) :
        k \in 1..(memes + storyboards)}

WhisperInit ==
    LET WhisperNows == {0, DAY, 2 * DAY, 8 * DAY}
        HealthHistories ==
            {<<40, 40, 40>>, <<40, 70, 90>>, <<90, 90, 90>>, <<70, 90, 70>>,
             <<40, 70, 70>>, <<90, 70, 40>>}
        CampaignCounts == {0, 1, 2, 3, MaxCampaigns - 1, MaxCampaigns}
        CampaignAges == {1, 7 * DAY - 5, 14 * DAY + 23, 15 * DAY}
        CampaignGaps == {1, 2 * DAY}
        PillarHistories ==
            {<<<<>>, <<>>>>,
             <<<<AllPillars[1]>>, <<AllPillars[1]>>>>,
             <<<<AllPillars[2]>>, <<AllPillars[1]>>>>,
             <<<<AllPillars[2], AllPillars[3]>>, <<AllPillars[1], AllPillars[3]>>>>,
             <<<<AllPillars[1], AllPillars[2], AllPillars[3]>>, <<>>>>}
        AssetCounts ==
            {<<0, 0>>, <<1, 0>>, <<1, 1>>, <<2, 1>>, <<3, 2>>, <<4, 2>>, <<1, 9>>, <<1, 10>>}
    IN
    /\ now \in WhisperNows
    /\ HealthIdle
    /\ ServicesIdle
    /\ apiKey = TRUE
    /\ \E n \in CampaignCounts, hs \in HealthHistories, age \in CampaignAges,
          gap \in CampaignGaps, p \in PillarHistories :
           campaigns = CampaignHistory(n, hs, age, gap, p[1], p[2], now)
    /\ \E c \in AssetCounts : assets = AssetHistory(c[1], c[2])
    /\ templates = {}
    /\ brandVoices = {}
    /\ incPending = [c \in Callers |-> NoRecord]
    /\ lastSaved = [name \in StoreNames |->
                       [i \in {r.id : r \in Store(name)} |-> get(Store(name), i)]]

\* ProactiveWhispers on mount: loadWhispers awaits generateWhispers, whose
\* two reads of the stores either both succeed, and the five analyses push
\* their whispers in order, or reject into the catch
loadWhispers ==
    /\ ~wsCalled
    /\ \E readsSucceed \in BOOLEAN :
           /\ wsRaw' = IF readsSucceed
                       THEN LET cs == getAllCampaigns
                                as == getAllAssets
                            IN  analyzeAssetDistribution(as)
                                    \o analyzeCampaignPatterns(cs)
                                    \o analyzeTimingPatterns(cs)
                                    \o generateOpportunities(cs, as)
                                    \o analyzePillarUsage(cs)
                       ELSE <<>>
           /\ whispers' = generateWhispers(wsRaw')
    /\ wsCalled' = TRUE
    /\ UNCHANGED <<now, healthVars, storeVars, serviceVars, appVars>>

SpecWhisper == WhisperInit /\ [][loadWhispers]_vars

\* C4 as stated: whispers are derived only from the stored campaign and
\* asset history, so when both stores are empty generateWhispers returns
\* the empty list.
C4_EmptyStoresNoWhispers ==
    (wsCalled /\ campaigns = {} /\ assets = {}) => whispers = <<>>

\* C4 amended: when both stores are empty generateWhispers returns only the
\* date-driven opportunity whispers (the seasonal one in December and
\* January, the Monday one on Mondays), and the empty list on any other date.
C4_EmptyStoresOnlyDateWhispers ==
    (wsCalled /\ campaigns = {} /\ assets = {}) =>
        /\ \A i \in DOMAIN whispers : whispers[i].id[1] \in {"whisper_seasonal", "whisper_monday"}
        /\ (getMonth(now) \notin {11, 0} /\ getDay(now) # 1) => whispers = <<>>

\* both date-driven whispers were returned from empty stores
C4_Witness ==
    /\ wsCalled /\ campaigns = {} /\ assets = {}
    /\ {whispers[i].id[1] : i \in DOMAIN whispers} = {"whisper_seasonal", "whisper_monday"}

\* C5: generateWhispers returns at most 5 whispers, ordered high before
\* medium before low, and no whisper it generated but left out has a
\* strictly higher priority than one it returned.
C5_TopFiveByPriority ==
    wsCalled =>
        LET IdsOf(ws) == {ws[i].id : i \in DOMAIN ws} IN
        /\ Len(whispers) <= 5
        /\ \A i, j \in DOMAIN whispers :
               i < j => priorityOrder[whispers[i].priority]
                            <= priorityOrder[whispers[j].priority]
        /\ \A k \in DOMAIN wsRaw : wsRaw[k].id \notin IdsOf(whispers) =>
               \A i \in DOMAIN whispers :
                   priorityOrder[whispers[i].priority]
                       <= priorityOrder[wsRaw[k].priority]
        /\ IdsOf(whispers) \subseteq IdsOf(wsRaw)

\* more than five whispers of all three priorities were generated, in an
\* order that is not the priority order, and five were returned
C5_Witness ==
    /\ wsCalled
    /\ Len(wsRaw) > 5
    /\ Len(whispers) = 5
    /\ {wsRaw[k].priority : k \in DOMAIN wsRaw} = {"high", "medium", "low"}
    /\ \E k \in DOMAIN wsRaw : k > 1 /\
           priorityOrder[wsRaw[k].priority] < priorityOrder[wsRaw[k - 1].priority]
    /\ \E k \in DOMAIN wsRaw : \A i \in DOMAIN whispers : whispers[i].id # wsRaw[k].id

(***************************************************************************)
(* Direct publishing stubs (publishing service).  A request keeps its      *)
(* platform, the length of its text, whether it has a video URL, and the   *)
(* time of scheduling.publishAt, 0 if it has none.  An error message is the *)
(* tuple of its sentences, its leading words apart: the result of          *)
(* publishToMeta without credentials has                                   *)
(*   error = <<"Not authenticated", "with Meta.", "Please connect ...">>.  *)
(* A PublishResult has exactly the fields the code gives it.               *)
(***************************************************************************)
HOUR == 1           \* 3600000 ms
TweetLimit == 280

getStoredCredentials(platform) == storedCredentials[platform]

NotAuthenticated(platform, service) ==
    [success |-> FALSE, platform |-> platform,
     error |-> <<"Not authenticated", "with " \o service \o ".",
                 "Please connect your account.">>]

Failure(platform, message) ==
    [success |-> FALSE, platform |-> platform, error |-> <<message>>]

Published(platform, postKind, postUrl) ==
    [success |-> TRUE, platform |-> platform, postId |-> <<postKind, now>>,
     postUrl |-> postUrl, publishedAt |-> now]

\* publishToMeta without its check of the credentials
publishToMeta_unchecked(request) ==
    Published("meta", "meta_post", "https://www.instagram.com/p/mock_post_id/")

publishToMeta(request) ==
    IF getStoredCredentials("meta") = NoRecord
    THEN NotAuthenticated("meta", "Meta")
    ELSE Published("meta", "meta_post", "https://www.instagram.com/p/mock_post_id/")

publishToTikTok(request) ==
    IF getStoredCredentials("tiktok") = NoRecord
    THEN NotAuthenticated("tiktok", "TikTok")
    ELSE IF ~request.content.videoUrl
    THEN Failure("tiktok", "TikTok requires video content.")
    ELSE Published("tiktok", "tiktok_post",
                   "https://www.tiktok.com/@user/video/mock_video_id")

publishToLinkedIn(request) ==
    IF getStoredCredentials("linkedin") = NoRecord
    THEN NotAuthenticated("linkedin", "LinkedIn")
    ELSE Published("linkedin", "linkedin_post",
                   "https://www.linkedin.com/feed/update/mock_update_id/")

publishToTwitter(request) ==
    IF getStoredCredentials("twitter") = NoRecord
    THEN NotAuthenticated("twitter", "X")
    ELSE IF request.content.textLength > 0 /\ request.content.textLength > TweetLimit
    THEN Failure("twitter", "Tweet exceeds 280 character limit.")
    ELSE Published("twitter", "tweet", "https://twitter.com/user/status/mock_tweet_id")

publish(request) ==
    CASE request.platform = "meta" -> publishToMeta(request)
      [] request.platform = "tiktok" -> publishToTikTok(request)
      [] request.platform = "linkedin" -> publishToLinkedIn(request)
      [] request.platform = "twitter" -> publishToTwitter(request)
      [] OTHER -> Failure(request.platform, "Unknown platform")

PublishRequest(platform, textLength, videoUrl, publishAt) ==
    [platform |-> platform,
     content |-> [textLength |-> textLength, videoUrl |-> videoUrl],
     publishAt |-> publishAt]

\* handleConnect's simulated OAuth callback: mock credentials are stored
handleOAuthCallback(platform) ==
    /\ storedCredentials' = [storedCredentials EXCEPT ![platform] =
           [platform |-> platform,
            accessToken |-> <<"mock_access_token", platform, now>>,
            refreshToken |-> <<"mock_refresh_token", platform>>,
            expiresAt |-> now + HOUR,
            accountId |-> <<"account", platform>>]]
    /\ UNCHANGED <<now, scheduledPosts, pubCall, pubResult, healthVars, storeVars,
                   whisperVars, appVars, trendVars, narrationVars>>

\* handleDisconnect
removeCredentials(platform) ==
    /\ storedCredentials[platform] # NoRecord
    /\ storedCredentials' = [storedCredentials EXCEPT ![platform] = NoRecord]
    /\ UNCHANGED <<now, scheduledPosts, pubCall, pubResult, healthVars, storeVars,
                   whisperVars, appVars, trendVars, narrationVars>>

\* handlePublish for a request without a publishing time
Publish(request) ==
    /\ pubCall' = [request |-> request,
                   hadCredentials |-> storedCredentials[request.platform] # NoRecord]
    /\ pubResult' = publish(request)
    /\ UNCHANGED <<now, storedCredentials, scheduledPosts, healthVars, storeVars,
                   whisperVars, appVars, trendVars, narrationVars>>

\* handlePublish for a request with a publishing time; the id
\* `scheduled_<now>_<random>` is the pair <<now, nonce>>
schedulePost(request, nonce) ==
    /\ \A post \in scheduledPosts : post.id # <<now, nonce>>
    /\ scheduledPosts' = scheduledPosts \cup
           {[id |-> <<now, nonce>>, request |-> request,
             scheduledFor |-> IF request.publishAt # 0 THEN request.publishAt
                              ELSE now + HOUR,
             status |-> "pending"]}
    /\ UNCHANGED <<now, storedCredentials, pubCall, pubResult, healthVars, storeVars,
                   whisperVars, appVars, trendVars, narrationVars>>

cancelScheduledPost(id) ==
    /\ \E post \in scheduledPosts : post.id = id
    /\ scheduledPosts' = {post \in scheduledPosts : post.id # id}
    /\ UNCHANGED <<now, storedCredentials, pubCall, pubResult, healthVars, storeVars,
                   whisperVars, appVars, trendVars, narrationVars>>

SpecPublish ==
    /\ AllIdle
    /\ [][\/ \E platform \in Platforms : handleOAuthCallback(platform)
          \/ \E platform \in Platforms : removeCredentials(platform)
          \/ \E platform \in Platforms, len \in {11, TweetLimit + 1}, video \in BOOLEAN :
                 Publish(PublishRequest(platform, len, video, 0))
          \/ \E platform \in Platforms, at \in {0, 2 * HOUR}, nonce \in {"a", "b"} :
                 schedulePost(PublishRequest(platform, 11, FALSE, at), nonce)
          \/ \E post \in scheduledPosts : cancelScheduledPost(post.id)]_vars

\* C7: publish(request) returns success=true only if credentials for
\* request.platform were stored when it was called; without them it returns
\* success=false with a 'Not authenticated' error and no postId, postUrl or
\* publishedAt; and a publish call changes neither the stored credentials
\* nor the scheduled posts.
C7_PublishNeedsCredentials ==
    /\ [](pubCall # NoRecord =>
            /\ pubResult.success => pubCall.hadCredentials
            /\ ~pubCall.hadCredentials =>
                  /\ pubResult.success = FALSE
                  /\ pubResult.error[1] = "Not authenticated"
                  /\ DOMAIN pubResult \cap {"postId", "postUrl", "publishedAt"} = {})
    /\ [][pubCall' # pubCall =>
            UNCHANGED <<storedCredentials, scheduledPosts>>]_vars

\* a publish call was refused for a platform without credentials while
\* another platform was connected and a post was scheduled
C7_Witness ==
    /\ pubCall # NoRecord
    /\ ~pubCall.hadCredentials
    /\ pubResult.success = FALSE
    /\ pubResult.error[1] = "Not authenticated"
    /\ \E p \in Platforms : storedCredentials[p] # NoRecord
    /\ scheduledPosts # {}

(***************************************************************************)
(* Trending topics (services/trendingTopicsService).  The cache is the     *)
(* JSON text under one localStorage key; it is only ever written by        *)
(* saveTrendingTopics, from an array of objects with three string fields   *)
(* and two integers, which JSON.parse reads back as written, so the model  *)
(* holds the parsed value.  A call of the AI service and the handling of   *)
(* its response happen at one reading of the clock.                        *)
(***************************************************************************)
CACHE_DURATION_MS == 7 * DAY
TopicLimit == 10

TrendingTopic(name, category, bridgePotential) ==
    [name |-> name, category |-> category, bridgePotential |-> bridgePotential]

DEFAULT_TRENDS ==
    <<TrendingTopic("Brown noise sleep", "wellness", "high"),
      TrendingTopic("5am club", "lifestyle", "high"),
      TrendingTopic("Touch grass", "wellness", "high"),
      TrendingTopic("Main character energy", "culture", "medium"),
      TrendingTopic("Roman Empire thoughts", "humor", "medium"),
      TrendingTopic("Very demure very mindful", "lifestyle", "high"),
      TrendingTopic("Seasonal depression", "wellness", "high"),
      TrendingTopic("Soft life era", "lifestyle", "high"),
      TrendingTopic("That girl aesthetic", "lifestyle", "high"),
      TrendingTopic("Hot girl walk", "wellness", "high")>>

getCachedTrendingTopics == trendCache

saveTrendingTopics(topics) ==
    [topics |-> topics, fetchedAt |-> now, expiresAt |-> now + CACHE_DURATION_MS]

\* what the AI call can come back with: a rejection, or a text that after
\* cleaning is not JSON, is JSON but not an array, or is an array of objects
\* (a missing field of an object is the empty string here)
AiResponse(kind, items) == [kind |-> kind, items |-> items]

\* the try block of fetchTrendingTopics up to its return: what it throws or
\* what it is about to save
fetchTry(response) ==
    LET Thrown(message) == [thrown |-> TRUE, message |-> message] IN
    IF response.kind = "rejects" THEN Thrown("generateContent failed")
    ELSE IF response.kind = "unparseable" THEN Thrown("SyntaxError")
    ELSE IF response.kind = "not_array" THEN Thrown("TypeError")
    ELSE LET validTopics ==
                 slice(SelectSeq(response.items, LAMBDA t :
                           t.name # "" /\ t.category # "" /\ t.bridgePotential # ""),
                       0, TopicLimit)
         IN  IF Len(validTopics) = 0 THEN Thrown("No valid topics parsed")
             ELSE [thrown |-> FALSE, value |-> validTopics]

Resolved(value) == [status |-> "resolved", value |-> value]

\* fetchTrendingTopics given the response the AI call would get: the
\* settled promise it returns; a resolved one has written its value
fetchTrendingTopics(response) ==
    IF ~apiKey THEN [status |-> "rejected", message |-> "API_KEY is missing."]
    ELSE LET attempt == fetchTry(response)
         IN  IF attempt.thrown THEN Resolved(saveTrendingTopics(DEFAULT_TRENDS))
             ELSE Resolved(saveTrendingTopics(attempt.value))

\* the test of getTrendingTopics with the expiry instant still served
servedFromCache_inclusive(forceRefresh, cached) ==
    ~forceRefresh /\ cached # NoRecord /\ now <= cached.expiresAt

\* the test of getTrendingTopics
servedFromCache(forceRefresh, cached) ==
    ~forceRefresh /\ cached # NoRecord /\ now < cached.expiresAt

AfterFetch(op, forceRefresh, response) ==
    LET promise == fetchTrendingTopics(response)
    IN  /\ trendCache' = IF promise.status = "resolved" THEN promise.value
                         ELSE trendCache
        /\ trCall' = [op |-> op, forceRefresh |-> forceRefresh, at |-> now,
                      cached |-> trendCache, fetched |-> TRUE, calledAI |-> apiKey,
                      response |-> response, result |-> promise,
                      stored |-> trendCache']

AiResponses ==
    LET TrendNames ==
            <<"t1", "t2", "t3", "t4", "t5", "t6", "t7", "t8", "t9", "t10", "t11">>
        ValidTopics(n) ==
            [i \in 1..n |-> TrendingTopic(TrendNames[i], "wellness", "high")]
    IN
    {AiResponse("rejects", <<>>), AiResponse("unparseable", <<>>),
     AiResponse("not_array", <<>>), AiResponse("array", <<>>),
     AiResponse("array", <<TrendingTopic("", "humor", "low"),
                           TrendingTopic("t1", "", "low"),
                           TrendingTopic("t2", "tech", "")>>),
     AiResponse("array", <<TrendingTopic("t1", "tech", "low"),
                           TrendingTopic("", "tech", "low"),
                           TrendingTopic("t2", "humor", "medium")>>),
     AiResponse("array", ValidTopics(TopicLimit + 1))}

FetchTrendingTopics(response) ==
    /\ AfterFetch("fetch", FALSE, response)
    /\ UNCHANGED <<now, apiKey, healthVars, storeVars, whisperVars, appVars, publishVars,
                   narrationVars>>

GetTrendingTopics(forceRefresh) ==
    /\ LET cached == getCachedTrendingTopics
       IN  IF servedFromCache(forceRefresh, cached)
           THEN /\ trCall' = [op |-> "get", forceRefresh |-> forceRefresh, at |-> now,
                              cached |-> trendCache, fetched |-> FALSE,
                              calledAI |-> FALSE, response |-> AiResponse("none", <<>>),
                              result |-> Resolved(cached), stored |-> trendCache]
                /\ UNCHANGED trendCache
           ELSE \E response \in AiResponses : AfterFetch("get", forceRefresh, response)
    /\ UNCHANGED <<now, apiKey, healthVars, storeVars, whisperVars, appVars, publishVars,
                   narrationVars>>

initializeTrendingTopics ==
    /\ getCachedTrendingTopics = NoRecord
    /\ trendCache' = saveTrendingTopics(DEFAULT_TRENDS)
    /\ UNCHANGED <<now, apiKey, trCall, healthVars, storeVars, whisperVars, appVars,
                   publishVars, narrationVars>>

\* the API key is configured in the build or it is not
TrendInit ==
    /\ now = 0
    /\ HealthIdle /\ StoreEmpty /\ ServicesIdle
    /\ apiKey \in BOOLEAN

SpecTrends ==
    /\ TrendInit
    /\ [][\/ \E forceRefresh \in BOOLEAN : GetTrendingTopics(forceRefresh)
          \/ \E response \in AiResponses : FetchTrendingTopics(response)
          \/ initializeTrendingTopics
          \/ Tick((7 * DAY) \div 2)]_vars

\* C8: getTrendingTopics(forceRefresh) returns the cached entry without
\* calling the AI service exactly when forceRefresh is false, a cache entry
\* exists and now < cache.expiresAt, where expiresAt is the time of the
\* cache write plus 7 days; in every other case it calls
\* fetchTrendingTopics.
C8_CacheOrFetch ==
    /\ trendCache # NoRecord => trendCache.expiresAt = trendCache.fetchedAt + 7 * DAY
    /\ (trCall # NoRecord /\ trCall.op = "get") =>
          LET fresh == /\ ~trCall.forceRefresh
                       /\ trCall.cached # NoRecord
                       /\ trCall.at < trCall.cached.fetchedAt + 7 * DAY
          IN  /\ fresh => /\ ~trCall.fetched /\ ~trCall.calledAI
                          /\ trCall.result = Resolved(trCall.cached)
                          /\ trCall.stored = trCall.cached
              /\ ~fresh => trCall.fetched
              /\ (trCall.fetched /\ trCall.result.status = "resolved") =>
                     /\ trCall.result.value.fetchedAt = trCall.at
                     /\ trCall.stored = trCall.result.value

\* the cache was served in its last fresh moment, half a week after it was
\* written
C8_Witness ==
    /\ trCall # NoRecord /\ trCall.op = "get"
    /\ ~trCall.fetched
    /\ trCall.cached # NoRecord
    /\ trCall.at > trCall.cached.fetchedAt
    /\ trCall.result = Resolved(trCall.cached)

\* C9: fetchTrendingTopics never raises, and whenever the fetch fails (the
\* AI service is not configured, the call errors, the response is not
\* parseable JSON, or no valid topic remains after filtering) it stores
\* DEFAULT_TRENDS in the cache and returns them.
C9_DefaultsOnFailure ==
    (trCall # NoRecord /\ trCall.fetched) =>
        /\ trCall.result.status = "resolved"
        /\ (~trCall.calledAI \/ fetchTry(trCall.response).thrown) =>
              /\ trCall.result.value.topics = DEFAULT_TRENDS
              /\ trCall.stored = trCall.result.value

(***************************************************************************)
(* Voice narration (services/narrationService) over the browser's speech   *)
(* synthesizer.  speechSynthesis keeps a queue of utterances and speaks    *)
(* the first; cancel() empties the queue and lets every removed utterance  *)
(* know by an event dispatched later: an error 'canceled' for one that had *)
(* not begun, and for the one being spoken an error 'interrupted' or, in   *)
(* browsers that end it instead, 'end'.  A promise continuation runs in    *)
(* the same step as the event handler that settled the promise.  The       *)
(* controls are mounted (the state callback is set); pausing is left out.  *)
(***************************************************************************)
MaxRuns == 2        \* narrate calls per behaviour

Utterance(run, section) == [run |-> run, section |-> section]

\* the section titles of generateBriefingScript
generateBriefingScript(blueprint) ==
    <<"Campaign Overview">>
        \o (IF Len(blueprint.pillars) > 0 THEN <<"Strategic Pillars">> ELSE <<>>)
        \o (IF Len(blueprint.hooks) > 0 THEN <<"Scroll-Stopping Hooks">> ELSE <<>>)
        \o (IF blueprint.pain_points > 0 THEN <<"Audience Pain Points">> ELSE <<>>)
        \o (IF Len(blueprint.cta_variants) > 0 THEN <<"Call to Action Options">> ELSE <<>>)
        \o (IF \/ blueprint.memes > 0 \/ blueprint.static_banners > 0
               \/ blueprint.short_videos > 0 \/ blueprint.ugc_scripts > 0
               \/ blueprint.carousels > 0
            THEN <<"Asset Inventory">> ELSE <<>>)
        \o <<"Summary">>

\* updateState: the partial state over the defaults
updateState(isPlaying, isPaused, currentSection, progress) ==
    [isPlaying |-> isPlaying, isPaused |-> isPaused,
     currentSection |-> currentSection, progress |-> progress]

\* the onStart callback of an utterance
onStart(u) ==
    LET run == runs[u.run]
        totalSections == Len(run.sections)
    IN  IF run.kind = "blueprint"
        THEN updateState(TRUE, FALSE, run.sections[u.section],
                 MathRound(DMulInt(DDivInt(DFromInt(u.section), totalSections), 100)))
        ELSE updateState(TRUE, FALSE, "Speaking", 50)

\* speechSynthesis.cancel(): the events owed to the removed utterances; the
\* one being spoken gets an error 'interrupted' or an end event, by browser
cancelEvents(speakingOutcome) ==
    [k \in DOMAIN synthQueue |->
        [utterance |-> synthQueue[k],
         type |-> IF k = 1 /\ synthSpeaking THEN speakingOutcome ELSE "canceled"]]

\* handleStop (and the clean-up of the controls): stopNarration
stopNarration ==
    /\ \E outcome \in {"interrupted", "end"} :
           synthEvents' = synthEvents \o cancelEvents(outcome)
    /\ synthQueue' = <<>>
    /\ synthSpeaking' = FALSE
    /\ currentUtterance' = NoRecord
    /\ narrState' = updateState(FALSE, FALSE, "", 0)
    /\ stoppedRuns' = {r \in DOMAIN runs : /\ runs[r].kind = "blueprint"
                                         /\ runs[r].status = "speaking"}
    /\ UNCHANGED <<now, runs, healthVars, storeVars, whisperVars, appVars, publishVars, trendVars>>

\* a narrate call: stopNarration, then speakSection for the first section
Narrate(kind, sections) ==
    /\ Len(runs) < MaxRuns
    /\ \E outcome \in {"interrupted", "end"} :
           synthEvents' = synthEvents \o cancelEvents(outcome)
    /\ synthSpeaking' = FALSE
    /\ narrState' = updateState(FALSE, FALSE, "", 0)
    /\ runs' = Append(runs, [kind |-> kind, sections |-> sections, i |-> 1,
                             status |-> "speaking"])
    /\ currentUtterance' = Utterance(Len(runs) + 1, 1)
    /\ synthQueue' = <<Utterance(Len(runs) + 1, 1)>>
    /\ stoppedRuns' = {}
    /\ UNCHANGED <<now, healthVars, storeVars, whisperVars, appVars, publishVars, trendVars>>

\* handlePlay
narrateBlueprint(blueprint) == Narrate("blueprint", generateBriefingScript(blueprint))

\* handleQuickSummary
narrateText == Narrate("text", <<"Custom">>)

\* the run goes on after its awaited speakSection resolved; queue is the
\* synthesizer's queue at that moment
Resume(r, queue) ==
    IF runs[r].i < Len(runs[r].sections)
    THEN /\ runs' = [runs EXCEPT ![r].i = @ + 1]
         /\ currentUtterance' = Utterance(r, runs[r].i + 1)
         /\ synthQueue' = Append(queue, Utterance(r, runs[r].i + 1))
         /\ UNCHANGED narrState
    ELSE /\ runs' = [runs EXCEPT ![r].status = "complete"]
         /\ narrState' = updateState(FALSE, FALSE, "Complete", 100)
         /\ synthQueue' = queue
         /\ UNCHANGED currentUtterance

\* ... or ends rejected, as narrateBlueprint and narrateText do not catch
Fail(r, queue) ==
    /\ runs' = [runs EXCEPT ![r].status = "failed"]
    /\ synthQueue' = queue
    /\ UNCHANGED <<currentUtterance, narrState>>

\* the synthesizer begins to speak the first utterance: onstart
UtteranceStart ==
    /\ Len(synthQueue) > 0 /\ ~synthSpeaking
    /\ synthSpeaking' = TRUE
    /\ narrState' = onStart(Head(synthQueue))
    /\ UNCHANGED <<now, synthQueue, synthEvents, currentUtterance, runs, stoppedRuns,
                   healthVars, storeVars, whisperVars, appVars, publishVars, trendVars>>

\* it has spoken it to the end: onend resolves
UtteranceEnd ==
    /\ Len(synthQueue) > 0 /\ synthSpeaking
    /\ synthSpeaking' = FALSE
    /\ Resume(Head(synthQueue).run, Tail(synthQueue))
    /\ UNCHANGED <<now, synthEvents, stoppedRuns,
                   healthVars, storeVars, whisperVars, appVars, publishVars, trendVars>>

\* it fails to speak it (say 'synthesis-failed'): onerror rejects
UtteranceError ==
    /\ Len(synthQueue) > 0 /\ synthSpeaking
    /\ synthSpeaking' = FALSE
    /\ Fail(Head(synthQueue).run, Tail(synthQueue))
    /\ UNCHANGED <<now, synthEvents, stoppedRuns,
                   healthVars, storeVars, whisperVars, appVars, publishVars, trendVars>>

\* the event owed to a cancelled utterance is dispatched: onend resolves,
\* onerror resolves for 'canceled' and rejects for any other error
CancelEvent ==
    /\ Len(synthEvents) > 0
    /\ synthEvents' = Tail(synthEvents)
    /\ LET event == Head(synthEvents)
       IN  IF event.type = "end" \/ event.type = "canceled"
           THEN Resume(event.utterance.run, synthQueue)
           ELSE Fail(event.utterance.run, synthQueue)
    /\ UNCHANGED <<now, synthSpeaking, stoppedRuns,
                   healthVars, storeVars, whisperVars, appVars, publishVars, trendVars>>

SpecNarration ==
    /\ AllIdle
    /\ [][\/ \E blueprint \in {BlueprintEmpty,
                               [BlueprintEmpty EXCEPT !.taglines = 1, !.memes = 2]} :
                 narrateBlueprint(blueprint)
          \/ narrateText
          \/ stopNarration
          \/ UtteranceStart
          \/ UtteranceEnd
          \/ UtteranceError
          \/ CancelEvent]_vars

\* C10: after stopNarration is called during a narrateBlueprint run, no
\* further section of that blueprint is handed to the speech synthesizer
\* and no isPlaying=true state is reported, until a new narrate call.
C10_StopEndsRun ==
    stoppedRuns # {} =>
        /\ \A k \in DOMAIN synthQueue : synthQueue[k].run \notin stoppedRuns
        /\ narrState.isPlaying = FALSE

(***************************************************************************)
(* Blueprint generation (gemini service) and the handlers of MainLayout.   *)
(* A generateContent call comes back with a response, whose text is        *)
(* empty, not JSON, JSON the schema rejects, or a valid blueprint, or with *)
(* an error that has a status (0 if it has none) and a message.  A message *)
(* is the sequence of its words, and includes() looks for a word in it.    *)
(* The brief stays the default brief.                                      *)
(***************************************************************************)
MaxEpoch == 2       \* replacements of the blueprint per behaviour

\* the two messages generateCampaignBlueprint gives the user
UserMessages ==
    [capacity |-> <<"The AI models are currently at capacity.",
                    "Please try again in a moment.">>,
     unclear  |-> <<"Failed to generate a valid blueprint.",
                    "The oracle was unclear.">>]

\* the fallback taken after every error of the primary model
isAvailabilityIssue_always(primaryError) == TRUE

isAvailabilityIssue(primaryError) ==
    \/ primaryError.status = 503
    \/ primaryError.status = 429
    \/ /\ primaryError.message # <<>>
       /\ \/ includes(primaryError.message, <<"overloaded">>)
          \/ includes(primaryError.message, <<"quota">>)

\* generateCampaignBlueprint given what the primary model's call comes back
\* with and what the fallback model's call would: the models called, in
\* order, and the blueprint returned or the message of the Error raised
generateCampaignBlueprint(primary, fallback) ==
    IF ~apiKey
    THEN [calls |-> <<>>, ok |-> FALSE,
          message |-> <<"API_KEY is missing.", "Please configure your environment.">>]
    ELSE
    LET Thrown(message) == [thrown |-> TRUE, message |-> message]
        fallsBack == ~primary.ok /\ isAvailabilityIssue(primary)
        calls == IF fallsBack THEN <<"gemini-3-pro-preview", "gemini-2.5-flash">>
                 ELSE <<"gemini-3-pro-preview">>
        response == IF primary.ok THEN primary
                    ELSE IF ~fallsBack THEN Thrown(primary.message)
                    ELSE IF fallback.ok THEN fallback
                    ELSE Thrown(fallback.message)
        attempt ==
            IF "thrown" \in DOMAIN response THEN response
            ELSE IF response.text = "empty" THEN Thrown(<<"Empty response from Gemini">>)
            ELSE IF response.text = "not_json"
            THEN Thrown(<<"Unexpected", "token", "in", "JSON">>)
            ELSE IF response.text = "schema_rejects"
            THEN Thrown(<<"ZodError:", "Required">>)
            ELSE [thrown |-> FALSE, value |-> response.blueprint]
    IN  IF attempt.thrown
        THEN [calls |-> calls, ok |-> FALSE,
              message |-> IF includes(attempt.message, <<"overloaded">>)
                          THEN UserMessages.capacity
                          ELSE UserMessages.unclear]
        ELSE [calls |-> calls, ok |-> TRUE, value |-> attempt.value]

\* what a call of a model can come back with
ModelOutcomes ==
    LET Response(text, blueprint) == [ok |-> TRUE, text |-> text, blueprint |-> blueprint]
        Error(status, message) == [ok |-> FALSE, status |-> status, message |-> message]
    IN  {Response("empty", NoRecord), Response("not_json", NoRecord),
         Response("schema_rejects", NoRecord),
         Response("valid", [BlueprintRich EXCEPT !.memes = 2]),
         Response("valid", [BlueprintSparse EXCEPT !.memes = 1]),
         Error(503, <<"Service", "Unavailable">>),
         Error(429, <<"Too", "Many", "Requests">>),
         Error(0, <<"The", "model", "is", "overloaded">>),
         Error(0, <<"quota", "exceeded">>),
         Error(500, <<"Internal", "error">>),
         Error(0, <<>>)}

\* handleGenerate up to its await of generateCampaignBlueprint; the button
\* is disabled while a generation is in flight
handleGenerate ==
    /\ genPending = NoRecord
    /\ epoch < MaxEpoch
    /\ genPending' = [step |-> "generating",
                      before |-> [blueprint |-> appBlueprint,
                                  healthScore |-> appHealthScore,
                                  currentCampaignId |-> currentCampaignId,
                                  campaigns |-> campaigns]]
    /\ UNCHANGED <<now, appBlueprint, appHealthScore, currentCampaignId,
                   generatedAssets, genCall, epoch,
                   healthVars, storeVars, whisperVars, serviceVars>>

\* ... from there to its await of saveCampaign, or into its catch
handleGenerate_generated(primary, fallback) ==
    /\ genPending # NoRecord /\ genPending.step = "generating"
    /\ LET generated == generateCampaignBlueprint(primary, fallback)
           call == [before |-> genPending.before, primary |-> primary,
                    fallback |-> IF Len(generated.calls) = 2 THEN fallback
                                 ELSE NoRecord,
                    generated |-> generated]
       IN  IF generated.ok
           THEN LET \* the object parsed from this response, told apart
                    \* from the ones of other generations by 'generation'
                    result == generated.value @@ [generation |-> epoch + 1]
                    score == analyzeHealthScore(BriefDefault, generated.value)
                IN  /\ appBlueprint' = result
                    /\ appHealthScore' = score
                    /\ epoch' = epoch + 1
                    /\ genPending' =
                         [step |-> "saving", call |-> call,
                          campaign |->
                              [blueprint |-> result] @@
                              StoredCampaign(<<"campaign", now>>, score.overall,
                                             BriefDefault.pillars, now)]
                    /\ UNCHANGED genCall
           ELSE /\ genCall' = call @@ [toast |-> "Vision Obscured",
                                       description |-> generated.message]
                /\ genPending' = NoRecord
                /\ UNCHANGED <<appBlueprint, appHealthScore, epoch>>
    /\ UNCHANGED <<now, currentCampaignId, generatedAssets,
                   healthVars, storeVars, whisperVars, serviceVars>>

\* ... and from there to its end: saveCampaign resolves, or it rejects (the
\* database is not initialized, or the put fails) into the catch
handleGenerate_saved(saveSucceeds) ==
    /\ genPending # NoRecord /\ genPending.step = "saving"
    /\ IF saveSucceeds
       THEN /\ campaigns' = put(campaigns, genPending.campaign)
            /\ Saved("campaigns", genPending.campaign)
            /\ currentCampaignId' = genPending.campaign.id
            /\ genCall' = genPending.call @@ [toast |-> "Vision Manifested"]
       ELSE /\ genCall' = genPending.call @@
                             [toast |-> "Vision Obscured",
                              description |-> <<"Database not initialized">>]
            /\ UNCHANGED <<campaigns, lastSaved, currentCampaignId>>
    /\ genPending' = NoRecord
    /\ UNCHANGED <<now, appBlueprint, appHealthScore, generatedAssets, epoch,
                   assets, templates, brandVoices, incPending,
                   healthVars, whisperVars, serviceVars>>

SpecApp ==
    /\ AllIdle
    /\ [][\/ handleGenerate
          \/ \E primary \in ModelOutcomes,
                fallback \in {o \in ModelOutcomes :
                                 o.ok => o.text \in {"empty", "valid"}} :
                 handleGenerate_generated(primary, fallback)
          \/ \E saveSucceeds \in BOOLEAN : handleGenerate_saved(saveSucceeds)
          \/ Tick(16 * DAY)]_vars

\* C11: generateCampaignBlueprint calls the primary model first; it calls
\* the fallback model only if the primary call failed with status 503 or 429
\* or with a message containing 'overloaded' or 'quota'; it makes at most two
\* model calls; and every failure after the API-key check is raised as an
\* Error carrying one of the two fixed user-facing messages.
C11_FallbackProtocol ==
    (genCall # NoRecord /\ genCall.generated.calls # <<>>) =>
        LET generated == genCall.generated
            primary == genCall.primary
        IN  /\ generated.calls[1] = "gemini-3-pro-preview"
            /\ Len(generated.calls) <= 2
            /\ (\E k \in DOMAIN generated.calls : generated.calls[k] = "gemini-2.5-flash") =>
                  /\ ~primary.ok
                  /\ \/ primary.status \in {503, 429}
                     \/ \E k \in DOMAIN primary.message :
                            primary.message[k] \in {"overloaded", "quota"}
            /\ ~generated.ok =>
                  generated.message \in {UserMessages.capacity, UserMessages.unclear}

\* the primary model answered 'quota exceeded', the fallback model was
\* called and failed as overloaded, and the capacity message was raised
C11_Witness ==
    /\ genCall # NoRecord
    /\ Len(genCall.generated.calls) = 2
    /\ ~genCall.primary.ok /\ genCall.primary.status = 0
    /\ genCall.fallback # NoRecord /\ ~genCall.fallback.ok
    /\ ~genCall.generated.ok
    /\ genCall.generated.message = UserMessages.capacity

\* C12: when handleGenerate reports failure ('Vision Obscured'), the
\* blueprint, the health score and the current campaign id are the ones in
\* place before the attempt, and the attempt added no campaign to storage.
C12_FailureLeavesState ==
    [][(/\ genPending # NoRecord /\ genPending' = NoRecord
        /\ genCall'.toast = "Vision Obscured")
       => /\ appBlueprint' = genCall'.before.blueprint
          /\ appHealthScore' = genCall'.before.healthScore
          /\ currentCampaignId' = genCall'.before.currentCampaignId
          /\ campaigns' = genCall'.before.campaigns]_vars

\* C13: every completed incrementTemplateUsage(id) call on a stored template
\* raises its stored usageCount by exactly one, whatever the interleaving of
\* the calls' read and write steps, so that n completed calls raise it by n;
\* and incrementTemplateUsage on an id that is not stored creates no
\* template (the call takes no step).
C13_EachCallCounts ==
    /\ [][\A c \in Callers :
            (/\ incPending[c] # NoRecord /\ incPending'[c] = NoRecord
             /\ get(templates, incPending[c].id) # NoRecord)
            => get(templates', incPending[c].id).usageCount
                   = get(templates, incPending[c].id).usageCount + 1]_vars
    /\ [](\A c \in Callers, id \in StoreIds :
            get(templates, id) = NoRecord
                => ~ENABLED incrementTemplateUsage_read(c, id))

\* C14: at most one narration sequence is active: once narrateBlueprint or
\* narrateText was called while an earlier narrateBlueprint run was still
\* speaking, the earlier run hands no further section to the synthesizer
\* and reports no further state (every queued utterance is of the latest
\* call, and no 'Complete' is reported while the latest call is speaking).
C14_OneSequenceActive ==
    runs # <<>> =>
        /\ \A k \in DOMAIN synthQueue : synthQueue[k].run = Len(runs)
        /\ narrState.currentSection = "Complete"
               => runs[Len(runs)].status # "speaking"

(***************************************************************************)
(* Scheduled posts while time passes.  The clock always goes on; what the  *)
(* user does (scheduling, cancelling) may stop at any time.  No timer or   *)
(* other code of the application reads scheduledFor.                       *)
(***************************************************************************)
MaxScheduled == 2   \* posts scheduled at one time

getScheduledPosts == {post \in scheduledPosts : post.status = "pending"}

SpecScheduleFair ==
    /\ AllIdle
    /\ [][\/ \E platform \in Platforms, at \in {0, 2 * HOUR}, nonce \in {"a", "b"} :
                 /\ Cardinality(scheduledPosts) < MaxScheduled
                 /\ schedulePost(PublishRequest(platform, 11, FALSE, at), nonce)
          \/ \E post \in scheduledPosts : cancelScheduledPost(post.id)
          \/ Tick(4 * DAY)]_vars
    /\ WF_vars(Tick(4 * DAY))

\* C15: a post scheduled for time T and not cancelled is eventually
\* published: once time has passed T its status leaves 'pending' (for
\* 'published' or 'failed') and it no longer appears in getScheduledPosts.
C15_ScheduledEventuallyPublished ==
    \A t \in 0..MaxNow, nonce \in {"a", "b"} :
        (\E post \in getScheduledPosts :
             post.id = <<t, nonce>> /\ now > post.scheduledFor)
        ~> \/ \E post \in scheduledPosts :
                  post.id = <<t, nonce>> /\ post.status \in {"published", "failed"}
           \/ \A post \in scheduledPosts : post.id # <<t, nonce>>


\* C16 --------------------------------------------------------------------

\* the ids under which BlueprintView shows and generates the visuals of a
\* blueprint: meme.id of each of blueprint.memes. The ids are the strings the
\* model wrote, unique within one response only; the k-th meme of every
\* response carries the k-th id here
memeIds(blueprint) ==
    IF blueprint = NoRecord THEN {}
    ELSE {<<"meme", k>> : k \in 1..blueprint.memes}

\* BlueprintView.handleGenerateAsset for a meme of the blueprint on screen:
\* generateMemeImage resolves and setAssetUrl merges the URL under the id, or
\* it rejects and the catch only reports. The URL is written here as the
\* blueprint and the id it was produced for
handleGenerateAsset(id, succeeds) ==
    /\ id \in memeIds(appBlueprint)
    /\ generatedAssets' =
         IF succeeds
         THEN [i \in DOMAIN generatedAssets \cup {id} |->
                  IF i = id THEN [generation |-> appBlueprint.generation, id |-> id]
                  ELSE generatedAssets[i]]
         ELSE generatedAssets
    /\ UNCHANGED <<now, appBlueprint, appHealthScore, currentCampaignId,
                   genPending, genCall, epoch,
                   healthVars, storeVars, whisperVars, serviceVars>>

\* App.handleLoadCampaign for a campaign of the history list
handleLoadCampaign(campaign) ==
    /\ campaign \in campaigns
    /\ appBlueprint' = campaign.blueprint
    /\ currentCampaignId' = campaign.id
    /\ appHealthScore' =
         IF campaign.healthScore # 0
         THEN analyzeHealthScore(BriefDefault,
                                 [f \in DOMAIN campaign.blueprint \ {"generation"} |->
                                     campaign.blueprint[f]])
         ELSE appHealthScore
    /\ UNCHANGED <<now, generatedAssets, genPending, genCall, epoch,
                   healthVars, storeVars, whisperVars, serviceVars>>

\* App.handleNewCampaign
handleNewCampaign ==
    /\ appBlueprint' = NoRecord
    /\ appHealthScore' = NoRecord
    /\ currentCampaignId' = NoRecord
    /\ UNCHANGED <<now, generatedAssets, genPending, genCall, epoch,
                   healthVars, storeVars, whisperVars, serviceVars>>

\* the application with its asset generation and its three ways of replacing
\* the blueprint, the model answering with a valid blueprint
SpecAssets ==
    /\ AllIdle
    /\ [][\/ handleGenerate
          \/ \E primary \in {o \in ModelOutcomes : o.ok /\ o.text = "valid"} :
                 handleGenerate_generated(primary, primary)
          \/ \E saveSucceeds \in BOOLEAN : handleGenerate_saved(saveSucceeds)
          \/ \E id \in memeIds(appBlueprint), succeeds \in BOOLEAN :
                 handleGenerateAsset(id, succeeds)
          \/ \E campaign \in campaigns : handleLoadCampaign(campaign)
          \/ handleNewCampaign
          \/ Tick(16 * DAY)]_vars

\* C16: after the blueprint is replaced (new generation, loaded campaign, new
\* campaign), no image URL produced for an asset of another blueprint is
\* shown for an asset of the blueprint on screen: every URL that
\* generatedAssets holds under an id of the current blueprint was produced
\* for the current blueprint.
C16_NoStaleAssetShown ==
    \A id \in memeIds(appBlueprint) :
        id \in DOMAIN generatedAssets
            => generatedAssets[id].generation = appBlueprint.generation

====
